---- MODULE Spec2Model ----
(***************************************************************************)
(* Authorization decision service for a media-streaming server             *)
(* (AntonSheinin/auth-backend).  The model follows src/app:                *)
(*   services/validation.py       ValidationService.validate_authorization *)
(*   services/session_service.py  SessionService                           *)
(*   services/token_service.py    TokenService                             *)
(*   utils/session_id.py          generate_session_id                      *)
(*   routes.py, main.py           terminate_session, cleanup task          *)
(*                                                                         *)
(* Time is an integer clock `now`; one store statement (or one service     *)
(* method whose statements touch a single row) is one step, so that        *)
(* concurrent requests interleave exactly where the code talks to the      *)
(* store.  The primary-key column `id` of the tables is left out: the code *)
(* addresses session rows by session_id and tokens by their unique token   *)
(* string / id, which correspond one to one.                               *)
(***************************************************************************)
EXTENDS Integers, Sequences, FiniteSets, TLC

(* ------------------------------------------------------------------ *)
(* Bounds of the model                                                 *)
(* ------------------------------------------------------------------ *)

\* The clock runs over 0..MaxTime.
MaxTime == 2

\* settings.auth_duration (config.py: default 180 s, 30..3600), in model
\* time units.
AUTH_DURATION == 1

(* ------------------------------------------------------------------ *)
(* Value sets                                                          *)
(* ------------------------------------------------------------------ *)

\* Request handlers that may be in flight at once.
Procs == {1, 2}

\* Invocations of the cleanup pass: the periodic task of main.py and the
\* manual endpoint of routes.py.
Sweepers == {"task"}

\* Optional values (Python None) are sequences of length 0 or 1.
None == << >>

Some(v) == << v >>

\* The requests the streaming server sends: name, ip, token, proto.
\* "cam1" + "10.0.0.1" and "cam11" + "0.0.0.1" concatenate to the same text.
Requests ==
    { [name |-> "cam1",  ip |-> "10.0.0.1", token |-> "tokA", proto |-> "hls"],
      [name |-> "cam11", ip |-> "0.0.0.1",  token |-> "tokA", proto |-> "hls"],
      [name |-> "cam1",  ip |-> "0.0.0.1",  token |-> "tokA", proto |-> "hls"],
      [name |-> "cam11", ip |-> "10.0.0.1", token |-> "tokA", proto |-> "hls"],
      [name |-> "cam1",  ip |-> "10.0.0.1", token |-> "tokB", proto |-> "hls"],
      [name |-> "cam1",  ip |-> "10.0.0.1", token |-> "nope", proto |-> "hls"] }

NoRequest == [name |-> "", ip |-> "", token |-> "", proto |-> ""]

\* A row of table tokens (models/token.py); allowed_ips / allowed_streams
\* hold the list that get_allowed_ips / get_allowed_streams parse back,
\* << >> standing for a NULL column.  updated_at is None until the service
\* writes the row.
Token(user_id, status, max_sessions, valid_from, valid_until, ips, streams) ==
    [user_id |-> user_id, status |-> status, max_sessions |-> max_sessions,
     valid_from |-> valid_from, valid_until |-> valid_until,
     allowed_ips |-> ips, allowed_streams |-> streams,
     updated_at |-> None]

Range(s) == { s[i] : i \in DOMAIN s }

(* ------------------------------------------------------------------ *)
(* State                                                               *)
(* ------------------------------------------------------------------ *)

VARIABLES
    now,              \* datetime.now()
    tokens,           \* table tokens: token string -> row
    active_sessions,  \* table active_sessions: set of rows
    ENABLE_ACCESS_LOGS, \* settings.enable_access_logs
    pc,               \* where each request handler stands
    req,              \* the request each handler serves
    result,           \* what validate_authorization returns / has decided
    access_logs,      \* rows of access_logs appended by the handler's request
    sw_pc,            \* where each cleanup pass stands
    sw_now,           \* `now` of cleanup_expired_sessions
    sw_count,         \* `count` of cleanup_expired_sessions
    sw_deleted,       \* rows the pass's DELETE removed
    lifespan,         \* main.lifespan: serving, cancelling or stopped
    admitted          \* history: requests admitted so far (serial service)

vars == << now, tokens, active_sessions, ENABLE_ACCESS_LOGS, pc, req, result,
           access_logs, sw_pc, sw_now, sw_count, sw_deleted, lifespan,
           admitted >>

store == << tokens, active_sessions >>

handler == << pc, req, result, access_logs >>

sweeper == << sw_pc, sw_now, sw_count, sw_deleted >>

(* ------------------------------------------------------------------ *)
(* utils/session_id.py                                                 *)
(* ------------------------------------------------------------------ *)

\* Mutant of generate_session_id: the address is left out of the digest.
generate_session_id_without_ip(stream_name, client_ip, token) ==
    stream_name \o token

\* sha256 of the concatenation name + ip + token, no delimiter.  The
\* digest is taken as injective, so the digest's input stands for it.
generate_session_id(stream_name, client_ip, token) ==
    stream_name \o client_ip \o token

SessionIdOf(r) == generate_session_id(r.name, r.ip, r.token)

(* ------------------------------------------------------------------ *)
(* services/session_service.py                                         *)
(* ------------------------------------------------------------------ *)

\* SessionService.get_by_session_id: the rows with that session_id.
get_by_session_id(session_id) ==
    { s \in active_sessions : s.session_id = session_id }

\* Mutant of NotExpired: a row counts whatever its expiry time.
NeverExpires(s, t) == TRUE

\* The filter shared by get_active_sessions_by_user and
\* count_active_sessions_by_user: expires_at IS NULL OR expires_at > now.
NotExpired(s, t) == s.expires_at = None \/ s.expires_at[1] > t

\* SessionService.count_active_sessions_by_user
count_active_sessions_by_user(user_id, exclude_session_id) ==
    Cardinality({ s \in active_sessions :
                    /\ s.user_id = user_id
                    /\ NotExpired(s, now)
                    /\ s.session_id # exclude_session_id })

\* Mutant of NewSession: the row is created without an expiry time.
NewSessionWithoutExpiry(session_id, token, user_id, r) ==
    [session_id |-> session_id, token_id |-> token, user_id |-> user_id,
     stream_name |-> r.name, client_ip |-> r.ip, protocol |-> r.proto,
     started_at |-> now, last_checked_at |-> now,
     expires_at |-> None]

\* The row SessionService.create_session builds.
NewSession(session_id, token, user_id, r) ==
    [session_id |-> session_id, token_id |-> token, user_id |-> user_id,
     stream_name |-> r.name, client_ip |-> r.ip, protocol |-> r.proto,
     started_at |-> now, last_checked_at |-> now,
     expires_at |-> Some(now + AUTH_DURATION)]

\* Mutant of Rechecked: the recheck also restarts the session.
RecheckedRestarted(s) ==
    [s EXCEPT !.started_at = now, !.last_checked_at = now,
              !.expires_at = Some(now + AUTH_DURATION)]

\* The row SessionService.update_session_last_check leaves.
Rechecked(s) ==
    [s EXCEPT !.last_checked_at = now,
              !.expires_at = Some(now + AUTH_DURATION)]

\* Mutant of ExpiredAt: a row expiring at t itself is selected too.
ExpiredAtInclusive(t) ==
    { s \in active_sessions : s.expires_at # None /\ s.expires_at[1] <= t }

\* The rows SessionService.cleanup_expired_sessions selects at time t.
ExpiredAt(t) ==
    { s \in active_sessions : s.expires_at # None /\ s.expires_at[1] < t }

(* ------------------------------------------------------------------ *)
(* services/validation.py: ValidationService.validate_authorization    *)
(* ------------------------------------------------------------------ *)

\* A handler that has decided nothing yet.
NoResult ==
    [is_allowed |-> FALSE, denial_reason |-> "", token_obj |-> None,
     raised |-> "", log_result |-> "", log_reason |-> ""]

\* `return False, reason, token_obj` after _log_access(..., "denied", log_reason)
Denied(reason, log_reason, token_obj) ==
    [is_allowed |-> FALSE, denial_reason |-> reason, token_obj |-> token_obj,
     raised |-> "", log_result |-> "denied", log_reason |-> log_reason]

\* Mutant of Allowed: the paths that write a session return a denial.
DeniedAfterSessionWrite(log_reason, token_obj) ==
    Denied("max_sessions_reached", log_reason, token_obj)

\* `return True, None, token_obj` after _log_access(..., "allowed", log_reason)
Allowed(log_reason, token_obj) ==
    [is_allowed |-> TRUE, denial_reason |-> "None", token_obj |-> token_obj,
     raised |-> "", log_result |-> "allowed", log_reason |-> log_reason]

\* An exception leaves validate_authorization: nothing is returned.
Raised(exception) ==
    [is_allowed |-> FALSE, denial_reason |-> "", token_obj |-> None,
     raised |-> exception, log_result |-> "", log_reason |-> ""]

\* Mutant of TokenChecks: the stream allow-list is checked before the IP
\* allow-list.
TokenChecksStreamFirst(r) ==
    IF r.token \notin DOMAIN tokens THEN "token_not_found"
    ELSE LET token_obj == tokens[r.token] IN
         IF token_obj.status = "suspended" THEN "token_suspended"
         ELSE IF token_obj.status = "expired" THEN "token_expired"
         ELSE IF now < token_obj.valid_from THEN "token_not_yet_valid"
         ELSE IF token_obj.valid_until # None /\ now > token_obj.valid_until[1]
              THEN "auto_expire"
         ELSE IF token_obj.allowed_streams # << >>
                 /\ r.name \notin Range(token_obj.allowed_streams)
              THEN "stream_not_allowed"
         ELSE IF token_obj.allowed_ips # << >>
                 /\ r.ip \notin Range(token_obj.allowed_ips)
              THEN "ip_not_allowed"
         ELSE "pass"

\* Mutant of TokenChecks: the validity window is checked before the
\* status.
TokenChecksWindowFirst(r) ==
    IF r.token \notin DOMAIN tokens THEN "token_not_found"
    ELSE LET token_obj == tokens[r.token] IN
         IF now < token_obj.valid_from THEN "token_not_yet_valid"
         ELSE IF token_obj.valid_until # None /\ now > token_obj.valid_until[1]
              THEN "auto_expire"
         ELSE IF token_obj.status = "suspended" THEN "token_suspended"
         ELSE IF token_obj.status = "expired" THEN "token_expired"
         ELSE IF token_obj.allowed_ips # << >>
                 /\ r.ip \notin Range(token_obj.allowed_ips)
              THEN "ip_not_allowed"
         ELSE IF token_obj.allowed_streams # << >>
                 /\ r.name \notin Range(token_obj.allowed_streams)
              THEN "stream_not_allowed"
         ELSE "pass"

\* Mutant of TokenChecks: a request whose session is open skips the checks
\* on the token row.
TokenChecksSkippedForOpenSession(r) ==
    IF r.token \notin DOMAIN tokens THEN "token_not_found"
    ELSE IF get_by_session_id(SessionIdOf(r)) # {} THEN "pass"
    ELSE LET token_obj == tokens[r.token] IN
         IF token_obj.status = "suspended" THEN "token_suspended"
         ELSE IF token_obj.status = "expired" THEN "token_expired"
         ELSE IF now < token_obj.valid_from THEN "token_not_yet_valid"
         ELSE IF token_obj.valid_until # None /\ now > token_obj.valid_until[1]
              THEN "auto_expire"
         ELSE IF token_obj.allowed_ips # << >>
                 /\ r.ip \notin Range(token_obj.allowed_ips)
              THEN "ip_not_allowed"
         ELSE IF token_obj.allowed_streams # << >>
                 /\ r.name \notin Range(token_obj.allowed_streams)
              THEN "stream_not_allowed"
         ELSE "pass"

\* Steps 1 to 5 of validate_authorization, on the token row read by
\* TokenService.get_by_token: the reason of the first check that fails,
\* "auto_expire" when valid_until has passed, "pass" otherwise.
TokenChecks(r) ==
    IF r.token \notin DOMAIN tokens THEN "token_not_found"
    ELSE LET token_obj == tokens[r.token] IN
         IF token_obj.status = "suspended" THEN "token_suspended"
         ELSE IF token_obj.status = "expired" THEN "token_expired"
         ELSE IF now < token_obj.valid_from THEN "token_not_yet_valid"
         ELSE IF token_obj.valid_until # None /\ now > token_obj.valid_until[1]
              THEN "auto_expire"
         ELSE IF token_obj.allowed_ips # << >>
                 /\ r.ip \notin Range(token_obj.allowed_ips)
              THEN "ip_not_allowed"
         ELSE IF token_obj.allowed_streams # << >>
                 /\ r.name \notin Range(token_obj.allowed_streams)
              THEN "stream_not_allowed"
         ELSE "pass"

\* The reason string logged on a refusal for the session limit.
MaxSessionsLogReason(active_count, max_sessions) ==
    "max_sessions_reached (" \o ToString(active_count) \o "/"
        \o ToString(max_sessions) \o ")"

\* The row _log_access adds to access_logs.
AccessLog(r, res) ==
    [token |-> r.token,
     user_id |-> IF res.token_obj = None THEN None
                 ELSE Some(tokens[res.token_obj[1]].user_id),
     stream_name |-> r.name, client_ip |-> r.ip, protocol |-> r.proto,
     result |-> res.log_result, reason |-> res.log_reason]

\* A request arrives: get_by_token and the checks on the token row.
Authorize(p, r) ==
    /\ pc[p] = "idle"
    /\ LET c == TokenChecks(r) IN
         /\ pc' = [pc EXCEPT ![p] =
                     CASE c = "pass" -> "get_session"
                       [] c = "auto_expire" -> "update_token"
                       [] OTHER -> "log"]
         /\ result' = [result EXCEPT ![p] =
                     IF c \in {"pass", "auto_expire"} THEN NoResult
                     ELSE Denied(c, c, IF c = "token_not_found" THEN None
                                       ELSE Some(r.token))]
    /\ req' = [req EXCEPT ![p] = r]
    /\ access_logs' = [access_logs EXCEPT ![p] = << >>]
    /\ UNCHANGED << now, store, ENABLE_ACCESS_LOGS, sweeper >>

\* Mutant of update_token_status: the new status is never committed.
update_token_uncommitted(token, status) == tokens

\* TokenService.update_token(db, token_obj.id, status="expired"), committed.
update_token_status(token, status) ==
    IF token \in DOMAIN tokens
    THEN [tokens EXCEPT ![token].status = status,
                        ![token].updated_at = Some(now)]
    ELSE tokens

\* validation.py line 60: the lazy expiry write.
AutoExpire(p) ==
    /\ pc[p] = "update_token"
    /\ tokens' = update_token_status(req[p].token, "expired")
    /\ result' = [result EXCEPT ![p] =
                    Denied("token_expired", "token_expired", Some(req[p].token))]
    /\ pc' = [pc EXCEPT ![p] = "log"]
    /\ UNCHANGED << now, active_sessions, ENABLE_ACCESS_LOGS, req,
                    access_logs, sweeper >>

\* Mutant of SessionExists: a row past its expiry counts as absent.
SessionExistsUnexpired(session_id) ==
    \E s \in get_by_session_id(session_id) : NotExpired(s, now)

\* validation.py lines 84-86: `if existing_session`
SessionExists(session_id) == get_by_session_id(session_id) # {}

\* validation.py lines 83-86: existing_session = get_by_session_id(...)
GetSession(p) ==
    /\ pc[p] = "get_session"
    /\ pc' = [pc EXCEPT ![p] =
                IF SessionExists(SessionIdOf(req[p]))
                THEN "update_session" ELSE "count"]
    /\ UNCHANGED << now, store, ENABLE_ACCESS_LOGS, req, result,
                    access_logs, sweeper >>

\* Mutant of update_session_last_check: only last_checked_at is written.
update_session_half(session_id) ==
    { IF s.session_id = session_id THEN [s EXCEPT !.last_checked_at = now]
      ELSE s : s \in active_sessions }

\* SessionService.update_session_last_check: the row is read again by
\* session_id; when it is gone the method returns None and changes nothing.
update_session_last_check(session_id) ==
    { IF s.session_id = session_id THEN Rechecked(s) ELSE s :
        s \in active_sessions }

\* validation.py lines 88-92: the recheck branch.
Recheck(p) ==
    /\ pc[p] = "update_session"
    /\ active_sessions' = update_session_last_check(SessionIdOf(req[p]))
    /\ result' = [result EXCEPT ![p] =
                    Allowed("session_recheck", Some(req[p].token))]
    /\ pc' = [pc EXCEPT ![p] = "log"]
    /\ UNCHANGED << now, tokens, ENABLE_ACCESS_LOGS, req, access_logs,
                    sweeper >>

\* Mutant of LimitReached: the comparison is strict.
LimitReachedStrict(active_count, max_sessions) == active_count > max_sessions

\* Mutant of LimitReached: the count is compared with a limit of one
\* session, whatever token is presented.
LimitReachedAtOne(active_count, max_sessions) == active_count >= 1

\* validation.py line 97: active_count >= token_obj.max_sessions
LimitReached(active_count, max_sessions) == active_count >= max_sessions

\* validation.py lines 95-108: count, compare with token_obj.max_sessions.
CountSessions(p) ==
    /\ pc[p] = "count"
    /\ LET token_obj == tokens[req[p].token]
           active_count == count_active_sessions_by_user(
                               token_obj.user_id, SessionIdOf(req[p]))
       IN IF LimitReached(active_count, token_obj.max_sessions)
          THEN /\ result' = [result EXCEPT ![p] =
                    Denied("max_sessions_reached",
                           MaxSessionsLogReason(active_count,
                                                token_obj.max_sessions),
                           Some(req[p].token))]
               /\ pc' = [pc EXCEPT ![p] = "log"]
          ELSE /\ pc' = [pc EXCEPT ![p] = "create"]
               /\ UNCHANGED result
    /\ UNCHANGED << now, store, ENABLE_ACCESS_LOGS, req, access_logs,
                    sweeper >>

\* Mutant of UniqueViolation: the column has no unique index.
NoUniqueIndex(session_id) == FALSE

\* The unique index on active_sessions.session_id (models/session.py).
UniqueViolation(session_id) == get_by_session_id(session_id) # {}

\* validation.py lines 111-125: SessionService.create_session.  The INSERT
\* of a session_id already in the table fails with IntegrityError, which
\* nothing catches.
CreateSession(p) ==
    /\ pc[p] = "create"
    /\ LET session_id == SessionIdOf(req[p])
           token_obj == tokens[req[p].token]
       IN IF UniqueViolation(session_id)
          THEN /\ result' = [result EXCEPT ![p] = Raised("IntegrityError")]
               /\ pc' = [pc EXCEPT ![p] = "done"]
               /\ UNCHANGED active_sessions
          ELSE /\ active_sessions' = active_sessions \cup
                    { NewSession(session_id, req[p].token,
                                 token_obj.user_id, req[p]) }
               /\ result' = [result EXCEPT ![p] =
                    Allowed("new_session", Some(req[p].token))]
               /\ pc' = [pc EXCEPT ![p] = "log"]
    /\ UNCHANGED << now, tokens, ENABLE_ACCESS_LOGS, req, access_logs,
                    sweeper >>

\* Mutant of log_access: the entry is written whatever the setting.
log_access_unconditional(logs, r, res) == Append(logs, AccessLog(r, res))

\* ValidationService._log_access: nothing when logging is disabled, one
\* row added and committed otherwise.
log_access(logs, r, res) ==
    IF ~ENABLE_ACCESS_LOGS THEN logs
    ELSE Append(logs, AccessLog(r, res))

\* The call of _log_access on the path taken, then the return statement.
LogAccess(p) ==
    /\ pc[p] = "log"
    /\ access_logs' = [access_logs EXCEPT ![p] =
                         log_access(@, req[p], result[p])]
    /\ pc' = [pc EXCEPT ![p] = "done"]
    /\ UNCHANGED << now, store, ENABLE_ACCESS_LOGS, req, result, sweeper >>

\* routes.authorize lines 71-79: the message of a denial reason, the
\* default of error_messages.get being "Access denied".
error_messages(reason, r, token_obj) ==
    CASE reason = "token_not_found" -> "Invalid or unknown token"
      [] reason = "token_suspended" -> "Token has been suspended"
      [] reason = "token_expired" -> "Token has expired"
      [] reason = "token_not_yet_valid" -> "Token is not yet valid"
      [] reason = "max_sessions_reached" ->
            "Maximum concurrent sessions limit reached ("
              \o (IF token_obj = None THEN "N/A"
                  ELSE ToString(tokens[token_obj[1]].max_sessions)) \o ")"
      [] reason = "ip_not_allowed" ->
            "IP address " \o r.ip \o " is not authorized for this token"
      [] reason = "stream_not_allowed" ->
            "Stream '" \o r.name \o "' is not authorized for this token"
      [] OTHER -> "Access denied"

\* Mutant of authorize_response: a failure is answered as a denial.
authorize_response_denying(r, res) ==
    [status_code |-> 403, headers |-> None,
     body |-> Some([error |-> "access_denied", reason |-> "unknown",
                    message |-> "Access denied", user_id |-> None])]

\* Mutant of authorize_response: a denial is answered without a body.
authorize_response_bare(r, res) ==
    IF res.is_allowed /\ res.token_obj # None
    THEN [status_code |-> 200,
          headers |-> Some([X_UserId |-> tokens[res.token_obj[1]].user_id,
                            X_Max_Sessions |->
                                ToString(tokens[res.token_obj[1]].max_sessions),
                            X_AuthDuration |-> ToString(AUTH_DURATION)]),
          body |-> None]
    ELSE [status_code |-> 403, headers |-> None, body |-> None]

\* routes.authorize lines 49-92: the HTTP response to request r whose
\* evaluation ended as res.  An exception leaving the route is answered by
\* the framework with status 500; an admit with status 200 and the three
\* headers; anything else with status 403 and a DeniedResponse body.
authorize_response(r, res) ==
    IF res.raised # ""
    THEN [status_code |-> 500, headers |-> None, body |-> None]
    ELSE IF res.is_allowed /\ res.token_obj # None
    THEN [status_code |-> 200,
          headers |-> Some([X_UserId |-> tokens[res.token_obj[1]].user_id,
                            X_Max_Sessions |->
                                ToString(tokens[res.token_obj[1]].max_sessions),
                            X_AuthDuration |-> ToString(AUTH_DURATION)]),
          body |-> None]
    ELSE [status_code |-> 403, headers |-> None,
          body |-> Some(
            [error |-> "access_denied",
             reason |-> IF res.denial_reason \in {"", "None"} THEN "unknown"
                        ELSE res.denial_reason,
             message |-> error_messages(res.denial_reason, r, res.token_obj),
             user_id |-> IF res.token_obj = None THEN None
                         ELSE Some(tokens[res.token_obj[1]].user_id)])]

\* The response has been sent; the handler is free for the next request.
Respond(p) ==
    /\ pc[p] = "done"
    /\ pc' = [pc EXCEPT ![p] = "idle"]
    /\ req' = [req EXCEPT ![p] = NoRequest]
    /\ result' = [result EXCEPT ![p] = NoResult]
    /\ access_logs' = [access_logs EXCEPT ![p] = << >>]
    /\ UNCHANGED << now, store, ENABLE_ACCESS_LOGS, sweeper >>

(* ------------------------------------------------------------------ *)
(* The cleanup pass, session termination, the clock                    *)
(* ------------------------------------------------------------------ *)

\* SessionService.cleanup_expired_sessions, first statement:
\* now = datetime.now(); count = expired.count()
CleanupCount(s) ==
    /\ sw_pc[s] = "idle"
    /\ sw_now' = [sw_now EXCEPT ![s] = now]
    /\ sw_count' = [sw_count EXCEPT ![s] = Cardinality(ExpiredAt(now))]
    /\ sw_pc' = [sw_pc EXCEPT ![s] = "counted"]
    /\ UNCHANGED << now, store, ENABLE_ACCESS_LOGS, handler, sw_deleted >>

\* Mutant of CleanupDelete: the pass returns without deleting.
CleanupDeleteSkipped(s) ==
    /\ sw_pc[s] = "counted"
    /\ sw_deleted' = [sw_deleted EXCEPT ![s] = 0]
    /\ sw_pc' = [sw_pc EXCEPT ![s] = "done"]
    /\ UNCHANGED << now, store, ENABLE_ACCESS_LOGS, handler, sw_now,
                    sw_count >>

\* SessionService.cleanup_expired_sessions, second statement:
\* expired.delete(); db.commit(); return count
CleanupDelete(s) ==
    /\ sw_pc[s] = "counted"
    /\ active_sessions' = active_sessions \ ExpiredAt(sw_now[s])
    /\ sw_deleted' = [sw_deleted EXCEPT ![s] =
                        Cardinality(ExpiredAt(sw_now[s]))]
    /\ sw_pc' = [sw_pc EXCEPT ![s] = "done"]
    /\ UNCHANGED << now, tokens, ENABLE_ACCESS_LOGS, handler, sw_now,
                    sw_count >>

\* The pass has returned its count to the task / the endpoint.
CleanupReturn(s) ==
    /\ sw_pc[s] = "done"
    /\ sw_pc' = [sw_pc EXCEPT ![s] = "idle"]
    /\ sw_now' = [sw_now EXCEPT ![s] = 0]
    /\ sw_count' = [sw_count EXCEPT ![s] = 0]
    /\ sw_deleted' = [sw_deleted EXCEPT ![s] = 0]
    /\ UNCHANGED << now, store, ENABLE_ACCESS_LOGS, handler >>

\* SessionService.delete_session, called by routes.terminate_session.
delete_session(session_id) ==
    active_sessions \ get_by_session_id(session_id)

\* An operator terminates an existing session.
Terminate(session_id) ==
    /\ get_by_session_id(session_id) # {}
    /\ active_sessions' = delete_session(session_id)
    /\ UNCHANGED << now, tokens, ENABLE_ACCESS_LOGS, handler, sweeper >>

\* Time passes.
Tick ==
    /\ now < MaxTime
    /\ now' = now + 1
    /\ UNCHANGED << store, ENABLE_ACCESS_LOGS, handler, sweeper >>

(* ------------------------------------------------------------------ *)
(* Token tables the service starts with                                *)
(* ------------------------------------------------------------------ *)

\* One identity, one token, no validity limit, no allow-list.
PlainTables ==
    { [t \in {"tokA"} |-> Token("u1", "active", n, 0, None, << >>, << >>)] :
        n \in {1, 2} }

\* One identity holding two tokens with different limits.
TwoTokenTables ==
    { [t \in {"tokA", "tokB"} |->
         IF t = "tokA" THEN Token("u1", "active", 1, 0, None, << >>, << >>)
         ELSE Token("u1", "active", 2, 0, None, << >>, << >>)] }

\* Every combination of status, validity window and allow-lists.
CheckTables ==
    { [t \in {"tokA"} |-> Token("u1", st, 1, vf, vu, ips, streams)] :
        st \in {"active", "suspended", "expired"},
        vf \in {0, 2},
        vu \in {None, Some(0)},
        ips \in {<< >>, << "10.0.0.1" >>},
        streams \in {<< >>, << "cam1" >>} }

(* ------------------------------------------------------------------ *)
(* Specifications                                                      *)
(* ------------------------------------------------------------------ *)

\* The empty store, the token table being one of `tables` and
\* settings.enable_access_logs one of `logging`.
InitWith(tables, logging) ==
    /\ now = 0
    /\ tokens \in tables
    /\ active_sessions = {}
    /\ ENABLE_ACCESS_LOGS \in logging
    /\ pc = [p \in Procs |-> "idle"]
    /\ req = [p \in Procs |-> NoRequest]
    /\ result = [p \in Procs |-> NoResult]
    /\ access_logs = [p \in Procs |-> << >>]
    /\ sw_pc = [s \in Sweepers |-> "idle"]
    /\ sw_now = [s \in Sweepers |-> 0]
    /\ sw_count = [s \in Sweepers |-> 0]
    /\ sw_deleted = [s \in Sweepers |-> 0]
    /\ lifespan = "serving"
    /\ admitted = {}

\* One step of request handler p, which takes its requests from R.
HandlerStep(p, R) ==
    \/ \E r \in R : Authorize(p, r)
    \/ AutoExpire(p)
    \/ GetSession(p)
    \/ Recheck(p)
    \/ CountSessions(p)
    \/ CreateSession(p)
    \/ LogAccess(p)
    \/ Respond(p)

\* One step of cleanup pass s.
SweeperStep(s) ==
    \/ CleanupCount(s)
    \/ CleanupDelete(s)
    \/ CleanupReturn(s)

SessionIds == { SessionIdOf(r) : r \in Requests }

(* Concurrent service: handlers and the sweeper interleave at every      *)
(* store statement.                                                      *)

\* The requests that race in the concurrent service: two fingerprints of
\* one token.
RacingRequests ==
    { r \in Requests : r.token = "tokA" /\ r.name = "cam1" }

\* Handlers are interchangeable: a request goes to the first free one.
FirstFree(p) ==
    pc[p] = "idle" => \A q \in Procs : q < p => pc[q] # "idle"

Init == InitWith(PlainTables, {TRUE})

\* What only the serial service and the shutdown change.
history == << lifespan, admitted >>

Next ==
    \/ \E p \in Procs :
          FirstFree(p) /\ HandlerStep(p, RacingRequests) /\ UNCHANGED history
    \/ \E s \in Sweepers : SweeperStep(s) /\ UNCHANGED history
    \/ \E id \in SessionIds : Terminate(id) /\ UNCHANGED history
    \/ Tick /\ UNCHANGED history

Spec == Init /\ [][Next]_vars

(* Serial service: one request or one cleanup pass at a time, each run   *)
(* to completion at one instant.                                         *)

BusyHandlers == { p \in Procs : pc[p] # "idle" }

BusySweepers == { s \in Sweepers : sw_pc[s] # "idle" }

\* The requests admitted so far, recorded when handler p responds.
Admit(p) ==
    admitted' = IF pc[p] = "done" /\ pc'[p] = "idle" /\ result[p].is_allowed
                THEN admitted \cup { req[p] }
                ELSE admitted

\* The serial service uses one handler.
SerialHandlers == {1}

InitSeq ==
    InitWith(PlainTables \cup TwoTokenTables \cup CheckTables, BOOLEAN)

NextSeq ==
    \/ \E p \in SerialHandlers :
          /\ BusyHandlers \subseteq {p} /\ BusySweepers = {}
          /\ HandlerStep(p, Requests) /\ Admit(p) /\ UNCHANGED lifespan
    \/ \E s \in Sweepers :
          /\ BusyHandlers = {} /\ BusySweepers \subseteq {s}
          /\ SweeperStep(s) /\ UNCHANGED history
    \/ \E id \in SessionIds :
          /\ BusyHandlers = {} /\ BusySweepers = {}
          /\ Terminate(id) /\ UNCHANGED history
    \/ /\ BusyHandlers = {} /\ BusySweepers = {}
       /\ Tick /\ UNCHANGED history

SpecSeq == InitSeq /\ [][NextSeq]_vars

(* Serial service whose store may refuse the lazy expiry write.          *)

\* validation.py line 60 when the commit of update_token fails: the
\* exception leaves update_token and validate_authorization uncaught.
AutoExpireFails(p) ==
    /\ pc[p] = "update_token"
    /\ result' = [result EXCEPT ![p] = Raised("OperationalError")]
    /\ pc' = [pc EXCEPT ![p] = "done"]
    /\ UNCHANGED << now, store, ENABLE_ACCESS_LOGS, req, access_logs,
                    sweeper >>

\* TokenService.get_by_token (validation.py line 31) fails: the request
\* ends before any check.
LookupFails(p, r) ==
    /\ pc[p] = "idle"
    /\ req' = [req EXCEPT ![p] = r]
    /\ result' = [result EXCEPT ![p] = Raised("OperationalError")]
    /\ access_logs' = [access_logs EXCEPT ![p] = << >>]
    /\ pc' = [pc EXCEPT ![p] = "done"]
    /\ UNCHANGED << now, store, ENABLE_ACCESS_LOGS, sweeper >>

\* A statement of the session step fails (validation.py lines 84, 88, 95,
\* 111): get_by_session_id, update_session_last_check,
\* count_active_sessions_by_user or create_session raises, nothing is
\* written and nothing catches the exception.
SessionStepFails(p) ==
    /\ pc[p] \in {"get_session", "update_session", "count", "create"}
    /\ result' = [result EXCEPT ![p] = Raised("OperationalError")]
    /\ pc' = [pc EXCEPT ![p] = "done"]
    /\ UNCHANGED << now, store, ENABLE_ACCESS_LOGS, req, access_logs,
                    sweeper >>

\* The commit of _log_access (validation.py lines 152-153) fails: the
\* exception leaves _log_access and validate_authorization, the decision
\* already computed is not returned.
LogAccessFails(p) ==
    /\ pc[p] = "log"
    /\ ENABLE_ACCESS_LOGS
    /\ result' = [result EXCEPT ![p] = Raised("OperationalError")]
    /\ pc' = [pc EXCEPT ![p] = "done"]
    /\ UNCHANGED << now, store, ENABLE_ACCESS_LOGS, req, access_logs,
                    sweeper >>

\* One failing store access of handler p.
FailingStep(p, R) ==
    \/ \E r \in R : LookupFails(p, r)
    \/ AutoExpireFails(p)
    \/ SessionStepFails(p)
    \/ LogAccessFails(p)

InitFail == InitWith(CheckTables, {TRUE})

NextFail ==
    \/ NextSeq
    \/ \E p \in SerialHandlers :
          /\ BusyHandlers \subseteq {p} /\ BusySweepers = {}
          /\ FailingStep(p, Requests) /\ UNCHANGED history

SpecFail == InitFail /\ [][NextFail]_vars

(* Shutdown: main.lifespan cancels the periodic cleanup task and waits   *)
(* for it.                                                               *)

\* Mutant of AtSleep: the task can be interrupted at any statement.
AtAnyStatement(s) == TRUE

\* main.py line 27: the only await of cleanup_expired_sessions_task, the
\* point where a CancelledError can be raised in it.
AtSleep(s) == sw_pc[s] = "idle"

\* main.py line 62: cleanup_task.cancel(), once the server has finished
\* its requests; the task may be asleep or inside a pass.
Shutdown ==
    /\ lifespan = "serving"
    /\ BusyHandlers = {}
    /\ lifespan' = "cancelling"
    /\ UNCHANGED << now, store, ENABLE_ACCESS_LOGS, handler, sweeper,
                    admitted >>

\* main.py lines 29-37 after the cancel: the pass in progress is
\* synchronous code and runs on to its return.
PassCompletes(s) ==
    /\ lifespan = "cancelling"
    /\ CleanupDelete(s) \/ CleanupReturn(s)
    /\ UNCHANGED history

\* main.py lines 39-41: CancelledError is raised at the sleep, logged and
\* re-raised; the task is over.
TaskCancelled(s) ==
    /\ lifespan = "cancelling"
    /\ AtSleep(s)
    /\ sw_pc[s] # "cancelled"
    /\ sw_pc' = [sw_pc EXCEPT ![s] = "cancelled"]
    /\ UNCHANGED << now, store, ENABLE_ACCESS_LOGS, handler, sw_now,
                    sw_count, sw_deleted, history >>

\* main.py lines 63-67: `await cleanup_task` returns with CancelledError,
\* which lifespan swallows.
LifespanExit ==
    /\ lifespan = "cancelling"
    /\ \A s \in Sweepers : sw_pc[s] = "cancelled"
    /\ lifespan' = "stopped"
    /\ UNCHANGED << now, store, ENABLE_ACCESS_LOGS, handler, sweeper,
                    admitted >>

\* The steps of the shutdown sequence after the cancel.
ShutdownStep ==
    \/ \E s \in Sweepers : PassCompletes(s)
    \/ \E s \in Sweepers : TaskCancelled(s)
    \/ LifespanExit

InitStop == InitWith(PlainTables, {TRUE})

\* While serving, the serial service; then the shutdown sequence.
NextStop ==
    \/ \E p \in SerialHandlers :
          /\ lifespan = "serving"
          /\ BusyHandlers \subseteq {p} /\ BusySweepers = {}
          /\ HandlerStep(p, RacingRequests) /\ UNCHANGED history
    \/ \E s \in Sweepers :
          /\ lifespan = "serving"
          /\ BusyHandlers = {} /\ BusySweepers \subseteq {s}
          /\ SweeperStep(s) /\ UNCHANGED history
    \/ /\ lifespan = "serving"
       /\ BusyHandlers = {} /\ BusySweepers = {}
       /\ Tick /\ UNCHANGED history
    \/ Shutdown
    \/ ShutdownStep

\* The event loop keeps running the task and lifespan until they return.
SpecStop == InitStop /\ [][NextStop]_vars /\ WF_vars(ShutdownStep)

(* The service with its cleanup task, from startup to shutdown: requests *)
(* and terminations arrive at any point of a cleanup pass.               *)

InitSweep == InitWith(PlainTables, {TRUE})

\* main.py lines 25-37 while the server runs: the loop of
\* cleanup_expired_sessions_task sleeps, runs a pass, logs and goes on; an
\* exception of a pass is logged (line 33) and does not end the loop.
TaskStep ==
    \E s \in Sweepers :
        lifespan = "serving" /\ SweeperStep(s) /\ UNCHANGED history

NextSweep ==
    \/ \E p \in SerialHandlers :
          /\ lifespan = "serving"
          /\ HandlerStep(p, RacingRequests) /\ UNCHANGED history
    \/ TaskStep
    \/ \E id \in SessionIds :
          lifespan = "serving" /\ Terminate(id) /\ UNCHANGED history
    \/ lifespan = "serving" /\ Tick /\ UNCHANGED history
    \/ Shutdown
    \/ ShutdownStep

\* The event loop keeps running the cleanup task while the server runs, and
\* the shutdown sequence once it has begun.
SpecSweep ==
    InitSweep /\ [][NextSweep]_vars /\ WF_vars(TaskStep) /\ WF_vars(ShutdownStep)

(* The service whose store may fail during a cleanup pass.               *)

\* session_service.py line 111 raises inside the task: expired.count()
\* fails, nothing is read or written, and the exception reaches the
\* `except Exception` of main.py line 33.
CleanupCountFails(s) ==
    /\ sw_pc[s] = "idle"
    /\ sw_pc' = [sw_pc EXCEPT ![s] = "failed"]
    /\ UNCHANGED << now, store, ENABLE_ACCESS_LOGS, handler, sw_now,
                    sw_count, sw_deleted >>

\* session_service.py line 112 raises inside the task: the delete or its
\* commit fails, no row is deleted, and the exception reaches the
\* `except Exception` of main.py line 33.
CleanupDeleteFails(s) ==
    /\ sw_pc[s] = "counted"
    /\ sw_pc' = [sw_pc EXCEPT ![s] = "failed"]
    /\ UNCHANGED << now, store, ENABLE_ACCESS_LOGS, handler, sw_now,
                    sw_count, sw_deleted >>

\* Mutant of CleanupRecover: the exception of a pass ends the task.
CleanupFailureEndsTask(s) ==
    /\ sw_pc[s] = "failed"
    /\ sw_pc' = [sw_pc EXCEPT ![s] = "cancelled"]
    /\ UNCHANGED << now, store, ENABLE_ACCESS_LOGS, handler, sw_now,
                    sw_count, sw_deleted >>

\* main.py lines 33-36 and 25-27: the error is logged, db.close() discards
\* the transaction, and `while True` goes back to the sleep.
CleanupRecover(s) ==
    /\ sw_pc[s] = "failed"
    /\ sw_pc' = [sw_pc EXCEPT ![s] = "idle"]
    /\ sw_now' = [sw_now EXCEPT ![s] = 0]
    /\ sw_count' = [sw_count EXCEPT ![s] = 0]
    /\ sw_deleted' = [sw_deleted EXCEPT ![s] = 0]
    /\ UNCHANGED << now, store, ENABLE_ACCESS_LOGS, handler >>

\* A store statement of a pass fails; a pass starts only while the server
\* runs, a pass in progress can fail after the cancel too.
TaskFails ==
    \E s \in Sweepers :
        /\ \/ lifespan = "serving" /\ CleanupCountFails(s)
           \/ lifespan \in {"serving", "cancelling"} /\ CleanupDeleteFails(s)
        /\ UNCHANGED history

\* The exception handler of the task is synchronous code and runs on.
TaskRecovers == \E s \in Sweepers : CleanupRecover(s) /\ UNCHANGED history

InitCrash == InitWith(PlainTables, {TRUE})

NextCrash ==
    \/ NextSweep
    \/ TaskFails
    \/ TaskRecovers

\* The event loop keeps running the cleanup task, its exception handler and
\* the shutdown sequence.
SpecCrash ==
    /\ InitCrash /\ [][NextCrash]_vars
    /\ WF_vars(TaskStep) /\ WF_vars(TaskRecovers) /\ WF_vars(ShutdownStep)

(* Two consecutive evaluations with a store that may refuse the lazy     *)
(* expiry write: handler 1 serves an evaluation, handler 2 the           *)
(* evaluations that follow it, and the outcome of handler 1 is kept      *)
(* until handler 2 is idle again.                                        *)

\* No evaluation is between its first and its last store statement.
NoneEvaluating == \A q \in Procs : pc[q] \in {"idle", "done"}

InitRetry == InitWith(CheckTables, {TRUE})

NextRetry ==
    \/ /\ pc[2] = "idle"
       /\ HandlerStep(1, Requests) \/ AutoExpireFails(1)
       /\ UNCHANGED history
    \/ /\ pc[1] = "done"
       /\ HandlerStep(2, Requests) \/ AutoExpireFails(2)
       /\ UNCHANGED history
    \/ NoneEvaluating /\ Tick /\ UNCHANGED history

SpecRetry == InitRetry /\ [][NextRetry]_vars

(* Serial service receiving requests with an empty parameter.            *)

\* GET /auth with name, ip or token present but empty: the declarations of
\* routes.authorize lines 34-36 set no minimum length, so the request
\* passes the parameter validation and reaches validate_authorization.
EmptyRequests ==
    { [name |-> "",     ip |-> "10.0.0.1", token |-> "tokA", proto |-> "hls"],
      [name |-> "cam1", ip |-> "",         token |-> "tokA", proto |-> "hls"],
      [name |-> "cam1", ip |-> "10.0.0.1", token |-> "",     proto |-> "hls"] }

InitInput == InitWith(PlainTables \cup CheckTables, BOOLEAN)

NextInput ==
    \/ \E p \in SerialHandlers :
          /\ BusyHandlers \subseteq {p} /\ BusySweepers = {}
          /\ HandlerStep(p, EmptyRequests) /\ UNCHANGED history
    \/ \E s \in Sweepers :
          /\ BusyHandlers = {} /\ BusySweepers \subseteq {s}
          /\ SweeperStep(s) /\ UNCHANGED history
    \/ \E id \in { SessionIdOf(r) : r \in EmptyRequests } :
          /\ BusyHandlers = {} /\ BusySweepers = {}
          /\ Terminate(id) /\ UNCHANGED history
    \/ /\ BusyHandlers = {} /\ BusySweepers = {}
       /\ Tick /\ UNCHANGED history

SpecInput == InitInput /\ [][NextInput]_vars

(* Serial service receiving requests that differ in one parameter.      *)

\* A request and the three requests that differ from it in the stream
\* name only, in the address only and in the token only.
NearRequests ==
    { r \in Requests :
        Cardinality({ f \in {"name", "ip", "token"} :
            r[f] # [name |-> "cam1", ip |-> "10.0.0.1", token |-> "tokA"][f] })
          <= 1 }

InitNear == InitWith(PlainTables \cup TwoTokenTables, {TRUE})

NextNear ==
    \/ \E p \in SerialHandlers :
          /\ BusyHandlers \subseteq {p} /\ BusySweepers = {}
          /\ HandlerStep(p, NearRequests) /\ UNCHANGED history
    \/ \E s \in Sweepers :
          /\ BusyHandlers = {} /\ BusySweepers \subseteq {s}
          /\ SweeperStep(s) /\ UNCHANGED history
    \/ \E id \in SessionIds :
          /\ BusyHandlers = {} /\ BusySweepers = {}
          /\ Terminate(id) /\ UNCHANGED history
    \/ /\ BusyHandlers = {} /\ BusySweepers = {}
       /\ Tick /\ UNCHANGED history

SpecNear == InitNear /\ [][NextNear]_vars

(* Serial service whose tokens an operator changes between requests.    *)

\* TokenService.update_token(db, id, status="suspended"), committed.
SuspendToken(t) ==
    /\ tokens[t].status = "active"
    /\ tokens' = update_token_status(t, "suspended")
    /\ UNCHANGED << now, active_sessions, ENABLE_ACCESS_LOGS, handler,
                    sweeper >>

\* TokenService.update_token(db, id, allowed_ips=ips): set_allowed_ips
\* stores the list, updated_at is set, the row is committed.
SetAllowedIps(t, ips) ==
    /\ tokens[t].allowed_ips # ips
    /\ tokens' = [tokens EXCEPT ![t].allowed_ips = ips,
                                ![t].updated_at = Some(now)]
    /\ UNCHANGED << now, active_sessions, ENABLE_ACCESS_LOGS, handler,
                    sweeper >>

\* TokenService.update_token(db, id, allowed_streams=streams)
SetAllowedStreams(t, streams) ==
    /\ tokens[t].allowed_streams # streams
    /\ tokens' = [tokens EXCEPT ![t].allowed_streams = streams,
                                ![t].updated_at = Some(now)]
    /\ UNCHANGED << now, active_sessions, ENABLE_ACCESS_LOGS, handler,
                    sweeper >>

\* One change of a token by an operator.
ManageStep ==
    \E t \in DOMAIN tokens :
        \/ SuspendToken(t)
        \/ SetAllowedIps(t, << "0.0.0.1" >>)
        \/ SetAllowedStreams(t, << "cam2" >>)

\* One token, with no validity limit or with valid_until = 1.
ManagedTables ==
    { [t \in {"tokA"} |-> Token("u1", "active", 1, 0, vu, << >>, << >>)] :
        vu \in {None, Some(1)} }

InitManage == InitWith(ManagedTables, {TRUE})

NextManage ==
    \/ \E p \in SerialHandlers :
          /\ BusyHandlers \subseteq {p} /\ BusySweepers = {}
          /\ HandlerStep(p, RacingRequests) /\ Admit(p) /\ UNCHANGED lifespan
    \/ \E s \in Sweepers :
          /\ BusyHandlers = {} /\ BusySweepers \subseteq {s}
          /\ SweeperStep(s) /\ UNCHANGED history
    \/ /\ BusyHandlers = {} /\ BusySweepers = {}
       /\ ManageStep /\ UNCHANGED history
    \/ /\ BusyHandlers = {} /\ BusySweepers = {}
       /\ Tick /\ UNCHANGED history

SpecManage == InitManage /\ [][NextManage]_vars

(* ------------------------------------------------------------------ *)
(* Properties                                                          *)
(* ------------------------------------------------------------------ *)

\* The sessions of an identity whose expiry time is still ahead.
LiveSessions(user_id) ==
    { s \in active_sessions :
        s.user_id = user_id /\ s.expires_at # None /\ s.expires_at[1] > now }

\* The sessions of an identity, expired or not.
SessionsOf(user_id) == { s \in active_sessions : s.user_id = user_id }

\* Token t is the only token of its identity.
SoleToken(t) ==
    \A u \in DOMAIN tokens : tokens[u].user_id = tokens[t].user_id => u = t

\* Handler p has finished a request without an exception.
Decided(p) == pc[p] = "done" /\ result[p].raised = ""

\* C1: in the serial service, with max_sessions never changed, the number
\* of non-expired sessions of an identity never exceeds the max_sessions of
\* the identity's token.
C1_LiveSessionsWithinLimit ==
    \A t \in DOMAIN tokens :
        SoleToken(t) =>
            Cardinality(LiveSessions(tokens[t].user_id)) <= tokens[t].max_sessions

\* C2: in the serial service a request admitted as a new session has found
\* fewer than max_sessions live sessions of other fingerprints and has
\* created one row with started_at = last_checked_at = now and
\* expires_at = now + AUTH_DURATION; a request refused with
\* max_sessions_reached has created no row and the identity already holds
\* max_sessions rows.
C2_BoundaryAdmission ==
    \A p \in Procs :
        Decided(p) =>
            LET r == req[p]
                session_id == SessionIdOf(r)
            IN /\ result[p].log_reason = "new_session" =>
                    LET token_obj == tokens[r.token] IN
                    /\ get_by_session_id(session_id) =
                         { [session_id |-> session_id, token_id |-> r.token,
                            user_id |-> token_obj.user_id,
                            stream_name |-> r.name, client_ip |-> r.ip,
                            protocol |-> r.proto, started_at |-> now,
                            last_checked_at |-> now,
                            expires_at |-> Some(now + AUTH_DURATION)] }
                    /\ Cardinality({ s \in LiveSessions(token_obj.user_id) :
                                       s.session_id # session_id })
                         < token_obj.max_sessions
               /\ result[p].denial_reason = "max_sessions_reached" =>
                    LET token_obj == tokens[r.token] IN
                    /\ get_by_session_id(session_id) = {}
                    /\ Cardinality(SessionsOf(token_obj.user_id))
                         >= token_obj.max_sessions

\* C2 witness: with max_sessions = 2, two sessions were admitted and are
\* both live, and the request of a third fingerprint has just been refused.
C2_Witness ==
    \E p \in Procs :
        /\ Decided(p)
        /\ result[p].denial_reason = "max_sessions_reached"
        /\ tokens[req[p].token].max_sessions = 2
        /\ Cardinality(LiveSessions(tokens[req[p].token].user_id)) = 2
        /\ Cardinality(active_sessions) = 2

\* C3 as claimed: once a triple has been admitted, every later evaluation
\* of the same triple while the token is valid is admitted as a recheck.
C3_AdmittedOnceAlwaysRecheck ==
    \A p \in Procs :
        (Decided(p) /\ req[p] \in admitted /\ TokenChecks(req[p]) = "pass") =>
            /\ result[p].is_allowed
            /\ result[p].log_reason = "session_recheck"

\* C3 as amended: a request for a triple admitted before, whose token
\* passes the checks and whose session row is still in the table, takes
\* the recheck branch whatever the identity's other sessions are; the
\* recheck admits it, sets the row's last_checked_at to now and its
\* expires_at to now + AUTH_DURATION, and adds no row.
C3_RecheckWhileSessionExists ==
    [][\A p \in Procs :
         LET session_id == SessionIdOf(req[p]) IN
         /\ ( /\ pc[p] = "get_session" /\ pc'[p] # "get_session"
              /\ req[p] \in admitted
              /\ get_by_session_id(session_id) # {} )
            => pc'[p] = "update_session"
         /\ ( pc[p] = "update_session" /\ pc'[p] # "update_session" )
            => /\ result'[p].is_allowed
               /\ result'[p].log_reason = "session_recheck"
               /\ Cardinality(active_sessions') = Cardinality(active_sessions)
               /\ \A s \in active_sessions' :
                     s.session_id = session_id =>
                        /\ s.last_checked_at = now
                        /\ s.expires_at = Some(now + AUTH_DURATION)
                        /\ \E o \in active_sessions :
                              /\ o.session_id = session_id
                              /\ o.started_at = s.started_at
    ]_vars

\* C3 witness: with max_sessions = 1 a triple admitted before has just been
\* rechecked while another session of the identity is live.
C3_Witness ==
    \E p \in Procs :
        /\ Decided(p)
        /\ req[p] \in admitted
        /\ result[p].log_reason = "session_recheck"
        /\ tokens[req[p].token].max_sessions = 1
        /\ \E s \in LiveSessions(tokens[req[p].token].user_id) :
              s.session_id # SessionIdOf(req[p])
        /\ \E s \in get_by_session_id(SessionIdOf(req[p])) :
              s.started_at < now /\ s.expires_at = Some(now + AUTH_DURATION)

\* The checks of the decision before concurrency admission, in the order
\* the specification gives them, each with the reason it denies with and
\* whether request r fails it in the current state.
OrderedChecks(r) ==
    LET found == r.token \in DOMAIN tokens
        tok == tokens[r.token]
    IN << [reason |-> "token_not_found", fails |-> ~found],
          [reason |-> "token_suspended",
           fails |-> found /\ tok.status = "suspended"],
          [reason |-> "token_expired",
           fails |-> found /\ tok.status = "expired"],
          [reason |-> "token_not_yet_valid",
           fails |-> found /\ now < tok.valid_from],
          [reason |-> "token_expired",
           fails |-> found /\ tok.valid_until # None
                           /\ tok.valid_until[1] < now],
          [reason |-> "ip_not_allowed",
           fails |-> found /\ tok.allowed_ips # << >>
                           /\ \A i \in DOMAIN tok.allowed_ips :
                                 tok.allowed_ips[i] # r.ip],
          [reason |-> "stream_not_allowed",
           fails |-> found /\ tok.allowed_streams # << >>
                           /\ \A i \in DOMAIN tok.allowed_streams :
                                 tok.allowed_streams[i] # r.name] >>

\* The positions of the checks request r fails.
FailedChecks(r) ==
    { i \in DOMAIN OrderedChecks(r) : OrderedChecks(r)[i].fails }

\* The earliest of them.
FirstFailed(r) ==
    CHOOSE i \in FailedChecks(r) : \A j \in FailedChecks(r) : i <= j

\* C4: in the serial service a finished request that fails one or more of
\* the checks token lookup, status, valid_from, valid_until, IP allow-list,
\* stream allow-list is denied with the reason of the earliest failing one;
\* only a request failing none of them reaches concurrency admission.
C4_FirstFailingCheckDecides ==
    \A p \in Procs :
        LET r == req[p] IN
        /\ Decided(p) =>
              IF FailedChecks(r) # {}
              THEN /\ ~result[p].is_allowed
                   /\ result[p].denial_reason =
                         OrderedChecks(r)[FirstFailed(r)].reason
              ELSE result[p].denial_reason \in {"None", "max_sessions_reached"}
        /\ pc[p] \in {"get_session", "update_session", "count", "create"} =>
              FailedChecks(r) = {}

\* C4 witness: a request outside both the IP allow-list and the stream
\* allow-list of a valid token has been denied ip_not_allowed.
C4_Witness ==
    \E p \in Procs :
        /\ Decided(p)
        /\ {6, 7} \subseteq FailedChecks(req[p])
        /\ result[p].denial_reason = "ip_not_allowed"

\* valid_until of token t is set and in the past.
PastValidUntil(t) ==
    tokens[t].valid_until # None /\ tokens[t].valid_until[1] < now

\* C5 as claimed: a finished evaluation of a token whose valid_until is in
\* the past never leaves the token active, and a token left expired was
\* denied token_expired.
C5_PastValidUntilExpires ==
    \A p \in Procs :
        (Decided(p) /\ req[p].token \in DOMAIN tokens
                    /\ PastValidUntil(req[p].token)) =>
            /\ tokens[req[p].token].status # "active"
            /\ tokens[req[p].token].status = "expired" =>
                  result[p].denial_reason = "token_expired"

\* The state part of C5 as amended.
LazyExpiryState ==
    \A p \in Procs :
        req[p].token \in DOMAIN tokens =>
          LET tok == tokens[req[p].token] IN
          /\ ( Decided(p) /\ PastValidUntil(req[p].token)
                          /\ tok.valid_from <= now ) =>
                tok.status # "active"
          /\ ( Decided(p) /\ tok.status = "expired" ) =>
                /\ ~result[p].is_allowed
                /\ result[p].denial_reason = "token_expired"
          /\ ( pc[p] \in {"log", "done"}
               /\ result[p].denial_reason = "token_expired" ) =>
                tok.status = "expired"
          /\ \A i \in DOMAIN access_logs[p] :
                access_logs[p][i].reason = "token_expired" =>
                   tok.status = "expired"

\* C5 as amended: in the serial service, evaluating a token whose
\* valid_from is not in the future and whose valid_until is in the past
\* never leaves it active; the token is expired in the store before the
\* audit entry is written and before token_expired is returned; an expired
\* token stays expired and every evaluation of it is denied token_expired.
C5_LazyExpiry ==
    [][ /\ LazyExpiryState'
        /\ \A t \in DOMAIN tokens :
              tokens[t].status = "expired" =>
                 tokens'[t].status = "expired" ]_vars

\* C5 witness: an active token was found past its valid_until, the write
\* of this instant made it expired, and the request was denied and logged
\* as token_expired.
C5_Witness ==
    \E p \in Procs :
        /\ Decided(p)
        /\ req[p].token \in DOMAIN tokens
        /\ tokens[req[p].token].status = "expired"
        /\ tokens[req[p].token].updated_at = Some(now)
        /\ result[p].denial_reason = "token_expired"
        /\ Len(access_logs[p]) = 1
        /\ access_logs[p][1].reason = "token_expired"

\* C6: when the write that persists the lazy transition to expired fails,
\* the evaluation still goes on to deny with token_expired; no error
\* reaches the caller: whatever the lazy expiry step does, the handler
\* leaves it holding the token_expired denial.
C6_FailedWriteStillDenies ==
    [][\A p \in Procs :
         (pc[p] = "update_token" /\ pc'[p] # "update_token") =>
            /\ result'[p].raised = ""
            /\ ~result'[p].is_allowed
            /\ result'[p].denial_reason = "token_expired"]_vars

\* C7: under every interleaving of request handlers, cleanup passes and
\* terminations, no two rows of active_sessions have the same session_id.
C7_OneRowPerFingerprint ==
    \A s1, s2 \in active_sessions :
        s1.session_id = s2.session_id => s1 = s2

\* C7 witness: two handlers served the same fingerprint at once; one
\* inserted the row, the insert of the other was refused by the index.
C7_Witness ==
    \E p, q \in Procs :
        /\ pc[p] = "done" /\ pc[q] = "done"
        /\ SessionIdOf(req[p]) = SessionIdOf(req[q])
        /\ result[p].log_reason = "new_session"
        /\ result[q].raised = "IntegrityError"
        /\ Cardinality(get_by_session_id(SessionIdOf(req[p]))) = 1

\* C8: two evaluations of the same triple in flight at once both complete
\* with a decision, and that decision is an admit unless the identity is at
\* its limit: the second writer updates the row of the first.
C8_ConcurrentSameTripleBothAdmitted ==
    \A p, q \in Procs :
        (p # q /\ pc[p] = "done" /\ pc[q] = "done" /\ req[p] = req[q]
               /\ TokenChecks(req[p]) = "pass") =>
            \A x \in {p, q} :
                /\ result[x].raised = ""
                /\ \/ result[x].is_allowed
                   \/ result[x].denial_reason = "max_sessions_reached"

\* C9: the number of non-expired sessions of an identity exceeds the
\* max_sessions of its token by at most the number of new-admission
\* evaluations in flight at once; served one at a time, by at most one.
C9_OverAdmissionBounded ==
    \A t \in DOMAIN tokens :
        SoleToken(t) =>
            Cardinality(LiveSessions(tokens[t].user_id))
                <= tokens[t].max_sessions + Cardinality(SerialHandlers)

\* C10: a session whose expiry time has passed, swept or not, and a session
\* that was terminated hold no slot: a request with a new fingerprint that
\* passes the token checks while fewer than max_sessions sessions of other
\* fingerprints are unexpired is admitted as a new session.
C10_ExpiredOrTerminatedFreesSlot ==
    \A p \in Procs :
        Decided(p) =>
            LET r == req[p]
                OtherLive ==
                    { s \in LiveSessions(tokens[r.token].user_id) :
                        s.session_id # SessionIdOf(r) }
            IN (/\ TokenChecks(r) = "pass"
                /\ result[p].log_reason # "session_recheck"
                /\ Cardinality(OtherLive) < tokens[r.token].max_sessions)
               => (result[p].is_allowed /\ result[p].log_reason = "new_session")

\* C10 witness: max_sessions sessions were held and have expired without
\* being swept; the next new fingerprint is admitted next to their rows.
C10_Witness ==
    \E p \in Procs :
        LET token_obj == tokens[req[p].token]
            Others == { s \in SessionsOf(token_obj.user_id) :
                          s.session_id # SessionIdOf(req[p]) }
        IN /\ Decided(p)
           /\ result[p].log_reason = "new_session"
           /\ token_obj.max_sessions = 2
           /\ Cardinality(Others) = 2
           /\ \A s \in Others : ~ NotExpired(s, now)

\* C11: an evaluation that has returned its decision, admit or denial,
\* has appended exactly one access_logs row when logging is enabled and
\* none when it is disabled; the row records the decision.  No handler
\* ever holds two rows for one request.
C11_OneAuditEntryPerEvaluation ==
    \A p \in Procs :
        /\ Len(access_logs[p]) <= 1
        /\ Decided(p) =>
             /\ Len(access_logs[p]) = IF ENABLE_ACCESS_LOGS THEN 1 ELSE 0
             /\ \A i \in DOMAIN access_logs[p] :
                   /\ access_logs[p][i].result =
                        (IF result[p].is_allowed THEN "allowed" ELSE "denied")
                   /\ access_logs[p][i].token = req[p].token

\* C11 witness: with logging disabled a request was admitted and left no
\* row.
C11_Witness ==
    \E p \in Procs :
        /\ Decided(p)
        /\ ~ENABLE_ACCESS_LOGS
        /\ result[p].is_allowed
        /\ access_logs[p] = << >>

\* C12: a failure of the audit write leaves the decision as computed: the
\* handler that reaches its return from the logging step returns the
\* result it had, and no exception reaches the caller.
C12_AuditFailureKeepsDecision ==
    [][\A p \in Procs :
         (pc[p] = "log" /\ pc'[p] = "done") =>
            /\ result'[p] = result[p]
            /\ result'[p].raised = ""]_vars

\* The denial taxonomy.
DenialReasons ==
    {"token_not_found", "token_suspended", "token_expired",
     "token_not_yet_valid", "ip_not_allowed", "stream_not_allowed",
     "max_sessions_reached"}

\* C18: an evaluation in which a store access failed returns no decision:
\* the handler holds neither an admit nor a denial reason, and the caller
\* is answered with a server error, not with 200 or 403.
C18_StoreFailureIsNotADecision ==
    \A p \in Procs :
        (pc[p] = "done" /\ result[p].raised # "") =>
            LET response == authorize_response(req[p], result[p]) IN
            /\ ~result[p].is_allowed
            /\ result[p].denial_reason \notin DenialReasons
            /\ response.status_code = 500
            /\ response.headers = None
            /\ response.body = None

\* C18 witness: the store failed after the session of the request had been
\* created, and the request ended without a decision.
C18_Witness ==
    \E p \in Procs :
        /\ pc[p] = "done"
        /\ result[p].raised = "OperationalError"
        /\ get_by_session_id(SessionIdOf(req[p])) # {}

\* C13: a cleanup pass run on its own at time T deletes exactly the rows
\* whose expires_at is earlier than T, leaves the other rows as they are and
\* returns the number of rows it deleted; after it no row is left for a
\* second pass at the same instant, which therefore returns 0.
C13_SweepDeletesExactlyExpired ==
    [][\A s \in Sweepers :
         (sw_pc[s] = "counted" /\ sw_pc'[s] = "done") =>
            LET Gone == { x \in active_sessions :
                            x.expires_at # None /\ x.expires_at[1] < now }
            IN /\ active_sessions' = active_sessions \ Gone
               /\ sw_count'[s] = Cardinality(Gone)
               /\ sw_deleted'[s] = Cardinality(Gone)
               /\ Cardinality({ x \in active_sessions' :
                     x.expires_at # None /\ x.expires_at[1] < now' }) = 0
    ]_vars

\* C13 witness: a pass has deleted one row and returned 1 while a row
\* expiring at this very instant was left in the table.
C13_Witness ==
    \E s \in Sweepers :
        /\ sw_pc[s] = "done"
        /\ sw_count[s] = 1
        /\ sw_deleted[s] = 1
        /\ \E x \in active_sessions : x.expires_at = Some(now)

\* C14: a cleanup pass is one atomic select-then-delete even next to
\* running request handlers: the count it returns is the number of rows it
\* deleted.
C14_SweepCountIsDeleted ==
    \A s \in Sweepers :
        sw_pc[s] = "done" => sw_count[s] = sw_deleted[s]

\* C15: when a cleanup pass and a recheck race for a session past its
\* expiry, the recheck leaves either the one row of the fingerprint with
\* last_checked_at = now and expires_at = now + AUTH_DURATION, or no row of
\* the fingerprint at all; a request that finds no row takes the
\* new-admission branch, where the limit applies.  No row is ever written
\* in part and no fingerprint ever has two rows.
C15_SweepRecheckRace ==
    [][\A p \in Procs :
         LET session_id == SessionIdOf(req[p])
             After == { s \in active_sessions' : s.session_id = session_id }
         IN
         /\ (pc[p] = "update_session" /\ pc'[p] # "update_session") =>
               \/ /\ get_by_session_id(session_id) = {}
                  /\ After = {}
               \/ /\ Cardinality(After) = 1
                  /\ \A s \in After :
                        /\ s.last_checked_at = now
                        /\ s.expires_at = Some(now + AUTH_DURATION)
         /\ ( /\ pc[p] = "get_session" /\ pc'[p] # "get_session"
              /\ get_by_session_id(session_id) = {} ) => pc'[p] = "count"
         /\ \A s \in active_sessions' :
               s.expires_at = Some(s.last_checked_at + AUTH_DURATION)
         /\ \A s1, s2 \in active_sessions' :
               s1.session_id = s2.session_id => s1 = s2
    ]_vars

\* C15 witness: a handler found the expired row of its fingerprint, the
\* cleanup pass deleted the row before the handler's update, and the
\* recheck changed nothing: the fingerprint has no row.
C15_Witness ==
    \E p \in Procs, s \in Sweepers :
        /\ pc[p] \in {"log", "done"}
        /\ result[p].log_reason = "session_recheck"
        /\ get_by_session_id(SessionIdOf(req[p])) = {}
        /\ sw_pc[s] = "done"
        /\ sw_deleted[s] = 1
        /\ active_sessions = {}

\* C16: once shutdown is requested the cleanup task ends and lifespan
\* returns.  The task is cancelled only at its sleep; a pass in progress
\* goes from its count to its delete and its return, deleting exactly the
\* rows it selected; no pass starts once the cancel has been issued; and
\* lifespan stops only after the task is over.
C16_SweeperStopsCleanly ==
    /\ [][\A s \in Sweepers :
            /\ (sw_pc'[s] = "cancelled" /\ sw_pc[s] # "cancelled") =>
                  sw_pc[s] = "idle"
            /\ (sw_pc[s] = "counted" /\ sw_pc'[s] # "counted") =>
                  /\ sw_pc'[s] = "done"
                  /\ active_sessions' =
                       { x \in active_sessions :
                           ~(x.expires_at # None
                             /\ x.expires_at[1] < sw_now[s]) }
            /\ (sw_pc[s] = "done" /\ sw_pc'[s] # "done") => sw_pc'[s] = "idle"
            /\ (sw_pc[s] # "counted" /\ sw_pc'[s] = "counted") =>
                  lifespan = "serving"
            /\ (lifespan # "stopped" /\ lifespan' = "stopped") =>
                  sw_pc[s] = "cancelled"
            /\ lifespan # "serving" =>
                  (active_sessions' # active_sessions => sw_pc[s] = "counted")
       ]_vars
    /\ (lifespan = "cancelling") ~> (lifespan = "stopped")

\* C16 witness: shutdown has been requested and the task is not yet
\* cancelled: the pass that was in progress has deleted the row it had
\* counted and is about to return.
C16_Witness ==
    \E s \in Sweepers :
        /\ lifespan = "cancelling"
        /\ sw_pc[s] = "done"
        /\ sw_count[s] = 1
        /\ sw_deleted[s] = 1
        /\ active_sessions = {}

\* C17: a request whose stream name, address or token is empty is rejected
\* before it is evaluated: it is never admitted, never denied with a reason
\* of the taxonomy, writes no access_logs row and has no session.
C17_EmptyInputRejected ==
    \A p \in Procs :
        ( /\ pc[p] # "idle"
          /\ (req[p].name = "" \/ req[p].ip = "" \/ req[p].token = "") ) =>
            /\ ~result[p].is_allowed
            /\ result[p].denial_reason \notin DenialReasons
            /\ access_logs[p] = << >>
            /\ get_by_session_id(SessionIdOf(req[p])) = {}

\* C19: a denial is answered with status 403 and a body holding the
\* denial reason, one of the seven of the taxonomy, a message for that
\* reason, and the identity of the token exactly when the token was found;
\* an admission is answered with status 200 and the identity, the token's
\* max_sessions and the configured auth duration.
C19_ResponseCarriesDecision ==
    \A p \in Procs :
        Decided(p) =>
            LET r == req[p]
                response == authorize_response(r, result[p])
            IN IF result[p].is_allowed
               THEN /\ response.status_code = 200
                    /\ response.headers =
                         Some([X_UserId |-> tokens[r.token].user_id,
                               X_Max_Sessions |->
                                   ToString(tokens[r.token].max_sessions),
                               X_AuthDuration |-> ToString(AUTH_DURATION)])
                    /\ \A s \in get_by_session_id(SessionIdOf(r)) :
                          s.expires_at = Some(now + AUTH_DURATION)
               ELSE /\ response.status_code = 403
                    /\ response.body # None
                    /\ response.body[1].reason = result[p].denial_reason
                    /\ response.body[1].reason \in DenialReasons
                    /\ response.body[1].message \notin {"", "Access denied"}
                    /\ response.body[1].user_id =
                         (IF r.token \in DOMAIN tokens
                          THEN Some(tokens[r.token].user_id) ELSE None)
                    /\ (response.body[1].user_id = None) <=>
                          (response.body[1].reason = "token_not_found")

\* C19 witness: a request refused for the session limit is answered 403
\* with the reason, the message naming the limit and the identity.
C19_Witness ==
    \E p \in Procs :
        /\ Decided(p)
        /\ authorize_response(req[p], result[p]) =
             [status_code |-> 403, headers |-> None,
              body |-> Some(
                [error |-> "access_denied",
                 reason |-> "max_sessions_reached",
                 message |-> "Maximum concurrent sessions limit reached (2)",
                 user_id |-> Some("u1")])]

\* Stream names, addresses and tokens, some empty, some a prefix or a
\* suffix of another.
FingerprintNames == {"", "cam", "cam1", "cam11"}

FingerprintAddresses == {"", "1", "0.0.0.1", "10.0.0.1"}

FingerprintTokens == {"", "1", "tokA", "tokB"}

\* C20: the fingerprint depends on its three inputs only, and two triples
\* that differ in exactly one input have different fingerprints: every row
\* carries the fingerprint of its own stream name, address and token
\* whatever the state, and rows or triples one input apart never share one.
C20_FingerprintPureAndSeparating ==
    /\ \A n \in FingerprintNames, i \in FingerprintAddresses,
          t \in FingerprintTokens :
          /\ \A n2 \in FingerprintNames \ {n} :
                generate_session_id(n, i, t) # generate_session_id(n2, i, t)
          /\ \A i2 \in FingerprintAddresses \ {i} :
                generate_session_id(n, i, t) # generate_session_id(n, i2, t)
          /\ \A t2 \in FingerprintTokens \ {t} :
                generate_session_id(n, i, t) # generate_session_id(n, i, t2)
    /\ \A s \in active_sessions :
          s.session_id = s.stream_name \o s.client_ip \o s.token_id
    /\ \A p \in Procs :
          pc[p] \in {"get_session", "update_session", "count", "create"} =>
             SessionIdOf(req[p]) = req[p].name \o req[p].ip \o req[p].token

\* C20 witness: sessions of two requests that differ in the address only
\* stand in the table under different fingerprints.
C20_Witness ==
    \E s1, s2 \in active_sessions :
        /\ s1.stream_name = s2.stream_name
        /\ s1.token_id = s2.token_id
        /\ s1.client_ip # s2.client_ip
        /\ s1.session_id # s2.session_id

\* C21: different (stream, address, token) triples have different
\* fingerprints, so a request admitted as a recheck has extended the
\* session that was created for its own stream name, address and token.
C21_FingerprintCollisionFree ==
    \A p \in Procs :
        (Decided(p) /\ result[p].log_reason = "session_recheck") =>
           \A s \in get_by_session_id(SessionIdOf(req[p])) :
              /\ s.stream_name = req[p].name
              /\ s.client_ip = req[p].ip
              /\ s.token_id = req[p].token

\* C22: a step of an evaluation changes table tokens only as the lazy
\* expiry does: the token of the request was active with valid_until in the
\* past, its status becomes expired (and updated_at the time of the write)
\* and the request is denied token_expired.  Every other step leaves every
\* token as it was; a suspended token stays suspended.
C22_OnlyLazyExpiryWritesTokens ==
    [][ /\ tokens' # tokens =>
             \E p \in Procs :
                LET t == req[p].token IN
                /\ pc[p] = "update_token" /\ pc'[p] = "log"
                /\ t \in DOMAIN tokens
                /\ tokens[t].status = "active"
                /\ tokens[t].valid_until # None
                /\ tokens[t].valid_until[1] < now
                /\ tokens' = [tokens EXCEPT ![t].status = "expired",
                                            ![t].updated_at = Some(now)]
                /\ result'[p].denial_reason = "token_expired"
        /\ \A t \in DOMAIN tokens :
              tokens[t].status = "suspended" => tokens'[t] = tokens[t]
        /\ \A p \in Procs :
              (pc'[p] = "done" /\ result'[p].raised = ""
                 /\ result'[p].denial_reason # "token_expired")
                => tokens' = tokens
      ]_vars

\* C22 witness: a request for a suspended token whose valid_until has
\* passed was denied token_suspended and the token is still suspended and
\* was never written.
C22_Witness ==
    \E p \in Procs :
        /\ Decided(p)
        /\ result[p].denial_reason = "token_suspended"
        /\ tokens[req[p].token].status = "suspended"
        /\ tokens[req[p].token].valid_until = Some(0)
        /\ tokens[req[p].token].valid_from <= now
        /\ now > 0
        /\ tokens[req[p].token].updated_at = None

\* C23: a decision is made on the token row as it stands now, whether or
\* not the request has an open session: a suspended token is denied
\* token_suspended, an expired one token_expired, an active one past its
\* valid_until token_expired, one whose allow-lists exclude the request
\* ip_not_allowed or stream_not_allowed; and a step that ends in a denial
\* leaves every session as it was.
C23_RecheckReadsCurrentToken ==
    [][\A p \in Procs :
         /\ (pc'[p] = "done" /\ result'[p].raised = "") =>
              LET r == req'[p]
                  token_obj == tokens'[r.token]
              IN /\ token_obj.status = "suspended" =>
                       result'[p].denial_reason = "token_suspended"
                 /\ token_obj.status = "expired" =>
                       result'[p].denial_reason = "token_expired"
                 /\ ( /\ token_obj.status = "active"
                      /\ token_obj.allowed_ips # << >>
                      /\ r.ip \notin Range(token_obj.allowed_ips) ) =>
                       result'[p].denial_reason = "ip_not_allowed"
                 /\ ( /\ token_obj.status = "active"
                      /\ ~( token_obj.allowed_ips # << >>
                            /\ r.ip \notin Range(token_obj.allowed_ips) )
                      /\ token_obj.allowed_streams # << >>
                      /\ r.name \notin Range(token_obj.allowed_streams) ) =>
                       result'[p].denial_reason = "stream_not_allowed"
                 /\ ~result'[p].is_allowed =>
                       result'[p].log_reason # "session_recheck"
         /\ (pc'[p] # pc[p] /\ ~result'[p].is_allowed) =>
               active_sessions' = active_sessions
    ]_vars

\* C23 witness: a triple admitted before, whose session row is still in
\* the table, is denied after the token's IP allow-list was changed, and the
\* row keeps the expiry it had.
C23_Witness ==
    \E p \in Procs :
        /\ Decided(p)
        /\ req[p] \in admitted
        /\ result[p].denial_reason = "ip_not_allowed"
        /\ now = 1
        /\ \E s \in get_by_session_id(SessionIdOf(req[p])) :
              s.expires_at = Some(1) /\ s.last_checked_at = 0

\* C24: whatever the interleaving with cleanup passes and terminations,
\* when an evaluation decides to admit, as a new session or as a recheck,
\* table active_sessions holds a row of the request's fingerprint whose
\* expiry is later than the time of the evaluation.
C24_AdmitHasLiveSession ==
    [][\A p \in Procs :
         (pc[p] # "log" /\ pc'[p] = "log" /\ result'[p].is_allowed) =>
            \E s \in active_sessions' :
               /\ s.session_id = SessionIdOf(req'[p])
               /\ s.expires_at # None
               /\ s.expires_at[1] > now'
    ]_vars

\* C25: an evaluation that ends in a denial has changed no session: every
\* step of a handler that leaves the handler without an admit leaves table
\* active_sessions as it was, and the request that is denied returns one of
\* the seven reasons.
C25_DenialLeavesSessions ==
    [][\A p \in Procs :
         /\ (pc'[p] # pc[p] /\ ~result'[p].is_allowed) =>
               active_sessions' = active_sessions
         /\ (pc'[p] = "done" /\ result'[p].raised = ""
               /\ ~result'[p].is_allowed) =>
               result'[p].denial_reason \in DenialReasons
    ]_vars

\* C25 witness: with a session of the identity in the table, a request of
\* another fingerprint was refused for the limit; the table holds that one
\* session, untouched since its creation.
C25_Witness ==
    \E p \in Procs :
        /\ Decided(p)
        /\ result[p].denial_reason = "max_sessions_reached"
        /\ get_by_session_id(SessionIdOf(req[p])) = {}
        /\ Cardinality(active_sessions) = 1
        /\ \A s \in active_sessions :
              s.started_at = now /\ s.last_checked_at = now

\* C26: a recheck at time t replaces the row of its fingerprint by the same
\* row with last_checked_at = t and expires_at = t + AUTH_DURATION, every
\* other field and every other row unchanged; and no step moves the expiry
\* of a row backwards.
C26_RecheckFrame ==
    [][ /\ \A p \in Procs :
             (pc[p] = "update_session" /\ pc'[p] # "update_session"
                /\ result'[p].raised = "") =>
                LET session_id == SessionIdOf(req[p]) IN
                /\ { s \in active_sessions' : s.session_id # session_id }
                     = { s \in active_sessions : s.session_id # session_id }
                /\ \A o \in get_by_session_id(session_id) :
                      [session_id |-> o.session_id, token_id |-> o.token_id,
                       user_id |-> o.user_id, stream_name |-> o.stream_name,
                       client_ip |-> o.client_ip, protocol |-> o.protocol,
                       started_at |-> o.started_at, last_checked_at |-> now,
                       expires_at |-> Some(now + AUTH_DURATION)]
                         \in active_sessions'
                /\ Cardinality(active_sessions') = Cardinality(active_sessions)
        /\ \A o \in active_sessions, s \in active_sessions' :
              (o.session_id = s.session_id /\ o.started_at = s.started_at) =>
                 s.expires_at[1] >= o.expires_at[1]
      ]_vars

\* C26 witness: of two sessions created at time 0 one was rechecked at
\* time 1; it kept its creation time, the other kept everything.
C26_Witness ==
    \E p \in Procs :
        /\ Decided(p)
        /\ result[p].log_reason = "session_recheck"
        /\ now = 1
        /\ \E s \in get_by_session_id(SessionIdOf(req[p])) :
              /\ s.started_at = 0
              /\ s.last_checked_at = 1
              /\ s.expires_at = Some(1 + AUTH_DURATION)
        /\ \E s \in active_sessions :
              /\ s.session_id # SessionIdOf(req[p])
              /\ s.started_at = 0
              /\ s.last_checked_at = 0
              /\ s.expires_at = Some(AUTH_DURATION)

\* C27: every row of active_sessions has an expiry time, was last checked
\* no earlier than it was started, and expires AUTH_DURATION after it was
\* last checked.
C27_SessionTimesConsistent ==
    \A s \in active_sessions :
        /\ s.expires_at # None
        /\ s.started_at <= s.last_checked_at
        /\ s.last_checked_at <= now
        /\ s.expires_at = Some(s.last_checked_at + AUTH_DURATION)

\* C27 witness: a session started at time 0 and rechecked at time 2 stands
\* next to a session started later and never rechecked.
C27_Witness ==
    \E s1, s2 \in active_sessions :
        /\ s1.started_at = 0 /\ s1.last_checked_at = 2
        /\ s2.started_at = 1 /\ s2.last_checked_at = 1

\* C28: the audit entry written for a decided evaluation records the outcome
\* the evaluation returns: its result is "allowed" exactly when the
\* evaluation admits, its user_id is that of the resolved token (absent only
\* for token_not_found), and its reason is new_session or session_recheck on
\* admission and the returned denial reason on denial.
C28_AuditEntryMatchesDecision ==
    \A p \in Procs :
        (Decided(p) /\ ENABLE_ACCESS_LOGS) =>
            /\ Len(access_logs[p]) > 0
            /\ LET entry == access_logs[p][Len(access_logs[p])]
                   res == result[p] IN
                 /\ entry.result = "allowed" <=> res.is_allowed
                 /\ entry.result \in {"allowed", "denied"}
                 /\ entry.user_id = None <=> res.denial_reason = "token_not_found"
                 /\ res.token_obj # None =>
                        entry.user_id = Some(tokens[res.token_obj[1]].user_id)
                 /\ IF res.is_allowed
                      THEN entry.reason \in {"new_session", "session_recheck"}
                      ELSE /\ entry.reason = res.denial_reason
                           /\ entry.reason \in DenialReasons

\* The non-expired sessions of the identity of request r, opened with any
\* token, other than the session of r's own fingerprint.
OtherLiveSessions(r) ==
    { s \in LiveSessions(tokens[r.token].user_id) :
        s.session_id # generate_session_id(r.name, r.ip, r.token) }

\* C29: the limit step of an evaluation counts the non-expired sessions of
\* the identity whatever token opened them, and compares the count with the
\* max_sessions of the token presented: it goes on to create a session
\* exactly when the count is below that value, and denies with
\* max_sessions_reached otherwise.
C29_LimitPerIdentity ==
    [][ \A p \in Procs :
          pc[p] = "count" /\ pc'[p] # "count" =>
              LET r == req[p]
                  limit == tokens[r.token].max_sessions
                  n == Cardinality(OtherLiveSessions(r)) IN
              IF n < limit
                THEN pc'[p] = "create"
                ELSE /\ pc'[p] = "log"
                     /\ result'[p].denial_reason = "max_sessions_reached"
      ]_vars

\* C29 witness: identity u1 owns tokA (limit 1) and tokB (limit 2); a
\* request presenting tokB has been admitted as a new session while a
\* session opened with tokA is live, and both sessions are now stored.
C29_Witness ==
    \E p \in Procs :
        /\ Decided(p) /\ result[p].is_allowed
        /\ result[p].log_reason = "new_session"
        /\ req[p].token = "tokB"
        /\ tokens["tokB"].max_sessions = 2
        /\ \E s1, s2 \in LiveSessions("u1") :
              s1.token_id = "tokA" /\ s2.token_id = "tokB"

\* The session of fingerprint id is stored and its expiry time has passed.
ExpiredSession(id) ==
    \E s \in active_sessions :
        s.session_id = id /\ s.expires_at # None /\ s.expires_at[1] < now

\* C30: while the cleanup task keeps running, a stored session whose expiry
\* time has passed does not stay so: it is deleted, or a recheck has moved
\* its expiry to a later time, unless the server is shut down first.
C30_ExpiredSessionsSwept ==
    \A id \in SessionIds :
        ExpiredSession(id) ~> (~ExpiredSession(id) \/ lifespan # "serving")

\* C30 witness: a cleanup pass of the running server that found two sessions
\* past their expiry has deleted both, and no stored session is past its
\* expiry.
C30_Witness ==
    \E s \in Sweepers :
        /\ lifespan = "serving"
        /\ sw_pc[s] = "done" /\ sw_count[s] = 2 /\ sw_deleted[s] = 2
        /\ \A id \in SessionIds : ~ExpiredSession(id)

\* C31: a cleanup pass that fails with a store error does not end the
\* cleanup task: the task is over only once shutdown has been requested,
\* the failure deletes no row and is followed by the sleep, and while the
\* server runs a task at its sleep goes on to another pass.
C31_SweeperSurvivesFailure ==
    /\ [](\A s \in Sweepers : sw_pc[s] = "cancelled" => lifespan # "serving")
    /\ [][ \A s \in Sweepers :
             /\ sw_pc'[s] = "failed" /\ sw_pc[s] # "failed" =>
                    active_sessions' = active_sessions
             /\ sw_pc[s] = "failed" => sw_pc'[s] \in {"failed", "idle"}
         ]_vars
    /\ \A s \in Sweepers :
          /\ sw_pc[s] = "failed" ~> sw_pc[s] = "idle"
          /\ (sw_pc[s] = "idle" /\ lifespan = "serving")
                ~> (sw_pc[s] \in {"counted", "failed"} \/ lifespan # "serving")

\* C31 witness: while the server runs, the delete of a pass that had counted
\* one session past its expiry has failed; the session is still stored.
C31_Witness ==
    \E s \in Sweepers :
        /\ lifespan = "serving"
        /\ sw_pc[s] = "failed" /\ sw_count[s] = 1
        /\ ExpiredAt(sw_now[s]) # {}

\* The evaluation of handler 1 has ended at a lazy expiry write that was
\* refused.
FirstWriteFailed == pc[1] = "done" /\ result[1].raised # ""

\* C32: a lazy expiry write that does not persist leaves the token row as
\* it was, with status active, and admits nothing; an evaluation of the
\* same token that follows while the status is still active goes to the
\* lazy expiry write again; and every evaluation of the token that follows
\* ends with the denial token_expired, never with an admit.
C32_FailedWriteRetried ==
    /\ [][ \A p \in Procs :
             (pc[p] = "update_token" /\ result'[p].raised # "") =>
                 /\ tokens' = tokens
                 /\ tokens[req[p].token].status = "active"
                 /\ ~result'[p].is_allowed
         ]_vars
    /\ [][ ( /\ FirstWriteFailed
             /\ pc[2] = "idle" /\ pc'[2] # "idle"
             /\ req'[2].token = req[1].token
             /\ tokens[req[1].token].status = "active" ) =>
                 pc'[2] = "update_token"
         ]_vars
    /\ []( ( /\ FirstWriteFailed
             /\ pc[2] = "done"
             /\ req[2].token = req[1].token ) =>
                 /\ ~result[2].is_allowed
                 /\ result[2].raised = ""
                 /\ result[2].denial_reason = "token_expired" )

====
